---- MODULE Spec2Model ----
(***************************************************************************)
(* Model of the two one-shot tools of os-one's scripts/ directory:         *)
(*   scripts/download_model.py  (download a HuggingFace snapshot, verify)  *)
(*   scripts/convert_to_mlx.py  (estimate, convert to MLX, verify)         *)
(*                                                                         *)
(* File names are sequences of atoms ("model", ".safetensors", ...), so    *)
(* that a glob pattern is matched against a name the way fnmatch does, one *)
(* element at a time.  File sizes are counted in MiB; the divisors         *)
(* 1024*1024 (bytes per MB) and 1024**3 (bytes per GB) of the source       *)
(* become 1 and 1024.  Directories hold regular files only, at the top     *)
(* level or inside one subdirectory.                                       *)
(***************************************************************************)
EXTENDS Integers, Sequences, FiniteSets, TLC

VARIABLES
    dir,        \* SpecFn: the directory handed to a verifier / estimator
    result,     \* SpecFn: what the last call returned
    tool,       \* Spec: which script runs ("download" / "convert")
    pc,         \* Spec: position of the run in main()
    alias,      \* download: the positional `model` argument
    quantize,   \* convert: the --quantize argument
    cfg,        \* convert: what json.load makes of <model_path>/config.json
    modelPath,  \* download: <output>/<repo_id>;  convert: args.model_path
    outPath,    \* download: args.output;  convert: args.output
    trace,      \* calls made so far, in order
    exitCode,   \* process exit status, meaningful when pc = "done"
    stdout,     \* kinds of message printed so far
    verdict,    \* what the verifier returned in this run
    est,        \* what the size estimator returned in this run
    raisedIn,   \* the call that raised in this run, "none" if none did
    outPath0    \* args.output as it was when the run started

fnVars == <<dir, result>>
runVars == <<tool, pc, alias, quantize, cfg, modelPath, outPath, trace,
             exitCode, stdout, verdict, est, raisedIn, outPath0>>
vars == <<dir, result, tool, pc, alias, quantize, cfg, modelPath, outPath,
          trace, exitCode, stdout, verdict, est, raisedIn, outPath0>>

(***************************************************************************)
(* Bounds of the model.                                                    *)
(***************************************************************************)
\* number of files a directory may hold
MaxFiles == 5

(***************************************************************************)
(* File names and paths.                                                   *)
(***************************************************************************)
CONFIG_JSON == <<"config", ".json">>
TOKENIZER_JSON == <<"tokenizer", ".json">>
MODEL_SAFETENSORS == <<"model", ".safetensors">>
WEIGHTS_SAFETENSORS == <<"weights", ".safetensors">>
MODEL_INDEX_JSON == <<"model", ".safetensors", ".index", ".json">>
SUBDIR == <<"original">>
\* the shard files model-0000i-of-00003.safetensors
ShardIds == 1..3
Shard(i) == <<"model", "-", ToString(i), "-of-", ToString(Cardinality(ShardIds)), ".safetensors">>

\* glob patterns used by the source
PAT_ALL == <<"*">>
PAT_SAFETENSORS == <<"*", ".safetensors">>
PAT_MODEL_SAFETENSORS == <<"model", "*", ".safetensors">>

TopNames == {CONFIG_JSON, TOKENIZER_JSON, MODEL_SAFETENSORS, WEIGHTS_SAFETENSORS,
             MODEL_INDEX_JSON} \cup {Shard(i) : i \in ShardIds}
Paths == {<<n>> : n \in TopNames} \cup {<<SUBDIR, MODEL_SAFETENSORS>>}

\* st_size readings, in MiB: a metadata file is small, a weights file may be
\* empty, small or large
Sizes == {0, 1, 3, 10}
SizesOf(p) == IF p[Len(p)][Len(p[Len(p)])] = ".json" THEN {1} ELSE {0, 3, 10}

\* what a path names: a directory with its files (a function from relative
\* paths to sizes), nothing at all, or a regular file
Dir(files) == [kind |-> "dir", files |-> files]
\* a path that does not exist
NoDir == [kind |-> "ENOENT", files |-> <<>>]
\* a path that exists and is a regular file, not a directory
NotADir == [kind |-> "ENOTDIR", files |-> <<>>]
EmptyDir == Dir(<<>>)

\* every directory content within the bounds
Dirs == {Dir(f) : f \in UNION {{g \in [S -> Sizes] : \A p \in S : g[p] \in SizesOf(p)} :
                       S \in {T \in SUBSET Paths : Cardinality(T) <= MaxFiles}}}

IsDir(d) == d.kind = "dir"

(***************************************************************************)
(* pathlib primitives.                                                     *)
(***************************************************************************)
RECURSIVE fnmatch(_, _)
fnmatch(name, pat) ==
    IF pat = <<>> THEN name = <<>>
    ELSE IF Head(pat) = "*"
         THEN \E k \in 0..Len(name) : fnmatch(SubSeq(name, k + 1, Len(name)), Tail(pat))
         ELSE name # <<>> /\ Head(name) = Head(pat) /\ fnmatch(Tail(name), Tail(pat))

\* Path.exists(): false, not an error, below a path that is no directory
exists(d, p) == IsDir(d) /\ p \in DOMAIN d.files

\* Path.is_file()
is_file(d, p) == exists(d, p)

\* the subdirectories of d (they exist because a file lies in them)
SubDirs(d) ==
    IF IsDir(d) THEN {SubSeq(p, 1, 1) : p \in {q \in DOMAIN d.files : Len(q) = 2}} ELSE {}

\* Path.glob(pat): entries directly in d; nothing, not an error, when d is no directory
glob(d, pat) ==
    IF IsDir(d)
    THEN {p \in DOMAIN d.files \cup SubDirs(d) : Len(p) = 1 /\ fnmatch(p[1], pat)}
    ELSE {}

\* Path.rglob(pat): entries at any depth
rglob(d, pat) ==
    IF IsDir(d)
    THEN {p \in DOMAIN d.files \cup SubDirs(d) : fnmatch(p[Len(p)], pat)}
    ELSE {}

\* Path.stat(): FileNotFoundError on a path that does not exist
stat(d, p) ==
    IF exists(d, p) THEN [err |-> FALSE, st_size |-> d.files[p]]
    ELSE IF p \in SubDirs(d) THEN [err |-> FALSE, st_size |-> 0]
    ELSE [err |-> TRUE, st_size |-> 0]

RECURSIVE SumSizes(_, _)
SumSizes(d, S) ==
    IF S = {} THEN 0
    ELSE LET p == CHOOSE x \in S : TRUE
         IN stat(d, p).st_size + SumSizes(d, S \ {p})

StatFails(d, S) == \E p \in S : stat(d, p).err

(***************************************************************************)
(* Exact rational arithmetic for the float results.  Dividing by a power   *)
(* of two and multiplying by 0.25 or 0.5 are exact in binary floating      *)
(* point, so a rational carries the same value the float does.             *)
(***************************************************************************)
Rat(n, d) == [num |-> n, den |-> d]
RatMul(a, b) == [num |-> a.num * b.num, den |-> a.den * b.den]
RatEq(a, b) == a.num * b.den = b.num * a.den

\* MiB per GB: the source's 1024**3 bytes, sizes being counted in MiB
MiBPerGB == 1024

(***************************************************************************)
(* download_model.py                                                       *)
(***************************************************************************)
MODELS ==
    ("qwen-1.5b" :> "Qwen/Qwen2.5-1.5B-Instruct") @@
    ("qwen-3b" :> "Qwen/Qwen2.5-3B-Instruct") @@
    ("gemma-2b" :> "google/gemma-2-2b-it") @@
    ("llama-1b" :> "meta-llama/Llama-3.2-1B-Instruct") @@
    ("llama-3b" :> "meta-llama/Llama-3.2-3B-Instruct")

\* get_dir_size: size of every regular file below path, in MB
get_dir_size(path) ==
    LET files == {f \in rglob(path, PAT_ALL) : is_file(path, f)}
    IN [raised |-> StatFails(path, files), val |-> Rat(SumSizes(path, files), 1)]

REQUIRED_FILES_MODEL == <<CONFIG_JSON, TOKENIZER_JSON, MODEL_SAFETENSORS>>

\* verify_model_line with the shard fallback globbing "*.safetensors"
verify_model_line_anyweights(model_path, file) ==
    IF ~exists(model_path, <<file>>)
    THEN LET sharded == glob(model_path, PAT_SAFETENSORS)
         IN IF file = MODEL_SAFETENSORS /\ sharded # {}
            THEN [file |-> file, mark |-> "sharded", n |-> Cardinality(sharded), err |-> FALSE]
            ELSE [file |-> file, mark |-> "MISSING", n |-> 0, err |-> FALSE]
    ELSE [file |-> file, mark |-> "found",
          n |-> stat(model_path, <<file>>).st_size,
          err |-> stat(model_path, <<file>>).err]

\* one pass of verify_model's loop: the line printed for `file`
verify_model_line(model_path, file) ==
    IF ~exists(model_path, <<file>>)
    THEN LET sharded == glob(model_path, PAT_MODEL_SAFETENSORS)
         IN IF file = MODEL_SAFETENSORS /\ sharded # {}
            THEN [file |-> file, mark |-> "sharded", n |-> Cardinality(sharded), err |-> FALSE]
            ELSE [file |-> file, mark |-> "MISSING", n |-> 0, err |-> FALSE]
    ELSE [file |-> file, mark |-> "found",
          n |-> stat(model_path, <<file>>).st_size,
          err |-> stat(model_path, <<file>>).err]

\* verify_model returning whether the last file checked was found
verify_model_lastonly(model_path) ==
    LET IsMissing(file) == verify_model_line(model_path, file).mark = "MISSING"
        missing == SelectSeq(REQUIRED_FILES_MODEL, IsMissing)
        lines == [i \in DOMAIN REQUIRED_FILES_MODEL |->
                      verify_model_line(model_path, REQUIRED_FILES_MODEL[i])]
    IN [raised |-> \E i \in DOMAIN lines : lines[i].err,
        ret |-> lines[Len(lines)].mark # "MISSING",
        missing |-> missing,
        lines |-> lines]

verify_model(model_path) ==
    LET IsMissing(file) == verify_model_line(model_path, file).mark = "MISSING"
        missing == SelectSeq(REQUIRED_FILES_MODEL, IsMissing)
        lines == [i \in DOMAIN REQUIRED_FILES_MODEL |->
                      verify_model_line(model_path, REQUIRED_FILES_MODEL[i])]
    IN [raised |-> \E i \in DOMAIN lines : lines[i].err,
        ret |-> missing = <<>>,
        missing |-> missing,
        lines |-> lines]

(***************************************************************************)
(* convert_to_mlx.py                                                       *)
(***************************************************************************)
\* the values --quantize can take after argparse; "none" is Python's None
QUANTIZATION_INFO == {"none", "q4", "q8"}

\* what json.load makes of config.json when the file is there:
\*   "dict"      a non-empty JSON object
\*   "empty"     a falsy JSON value ({}, [], 0, null, "")
\*   "list"      a truthy JSON value that is no object (has no .get)
\*   "malformed" not JSON: json.JSONDecodeError
ConfigStates == {"dict", "empty", "list", "malformed"}

\* get_model_info catching the parse error and returning {}
get_model_info_lenient(model_path, c) ==
    IF ~exists(model_path, <<CONFIG_JSON>>)
    THEN [raised |-> FALSE, warned |-> TRUE, info |-> "empty"]
    ELSE IF c = "malformed"
         THEN [raised |-> FALSE, warned |-> TRUE, info |-> "empty"]
         ELSE [raised |-> FALSE, warned |-> FALSE, info |-> c]

get_model_info(model_path, c) ==
    IF ~exists(model_path, <<CONFIG_JSON>>)
    THEN [raised |-> FALSE, warned |-> TRUE, info |-> "empty"]
    ELSE IF c = "malformed"
         THEN [raised |-> TRUE, warned |-> FALSE, info |-> "empty"]
         ELSE [raised |-> FALSE, warned |-> FALSE, info |-> c]

\* estimate_size with glob in place of rglob
estimate_size_toplevel(model_path, q) ==
    LET files == {f \in glob(model_path, PAT_SAFETENSORS) : is_file(model_path, f)}
        total_size == SumSizes(model_path, files)
        original_gb == Rat(total_size, MiBPerGB)
    IN [raised |-> StatFails(model_path, files),
        val |-> IF q = "q4" THEN RatMul(original_gb, Rat(25, 100))
                ELSE IF q = "q8" THEN RatMul(original_gb, Rat(5, 10))
                ELSE original_gb]

\* estimate_size: estimated output size in GB
estimate_size(model_path, q) ==
    LET files == {f \in rglob(model_path, PAT_SAFETENSORS) : is_file(model_path, f)}
        total_size == SumSizes(model_path, files)
        original_gb == Rat(total_size, MiBPerGB)
    IN [raised |-> StatFails(model_path, files),
        val |-> IF q = "q4" THEN RatMul(original_gb, Rat(25, 100))
                ELSE IF q = "q8" THEN RatMul(original_gb, Rat(5, 10))
                ELSE original_gb]

REQUIRED_FILES_MLX == <<CONFIG_JSON, TOKENIZER_JSON>>

verify_conversion_line(output_path, file) ==
    IF exists(output_path, <<file>>)
    THEN [file |-> file, mark |-> "found"]
    ELSE [file |-> file, mark |-> "MISSING"]

\* verify_conversion with rglob in place of glob
verify_conversion_recursive(output_path) ==
    LET mlx_files == rglob(output_path, PAT_SAFETENSORS)
        lines == [i \in DOMAIN REQUIRED_FILES_MLX |->
                      verify_conversion_line(output_path, REQUIRED_FILES_MLX[i])]
        IsMissing(file) == verify_conversion_line(output_path, file).mark = "MISSING"
        success == (\A i \in DOMAIN lines : lines[i].mark = "found") /\ mlx_files # {}
    IN [raised |-> StatFails(output_path, mlx_files),
        ret |-> success,
        missing |-> SelectSeq(REQUIRED_FILES_MLX, IsMissing),
        lines |-> lines,
        weights |-> IF mlx_files # {}
                    THEN [mark |-> "found", n |-> Cardinality(mlx_files),
                          total |-> Rat(SumSizes(output_path, mlx_files), MiBPerGB)]
                    ELSE [mark |-> "MISSING", n |-> 0, total |-> Rat(0, MiBPerGB)]]

\* verify_conversion reading the size of each required file without asking
\* first whether it exists
verify_conversion_statfirst(output_path) ==
    LET mlx_files == glob(output_path, PAT_SAFETENSORS)
        lines == [i \in DOMAIN REQUIRED_FILES_MLX |->
                      verify_conversion_line(output_path, REQUIRED_FILES_MLX[i])]
        IsMissing(file) == verify_conversion_line(output_path, file).mark = "MISSING"
        success == (\A i \in DOMAIN lines : lines[i].mark = "found") /\ mlx_files # {}
    IN [raised |-> StatFails(output_path,
                             {<<REQUIRED_FILES_MLX[i]>> : i \in DOMAIN REQUIRED_FILES_MLX}),
        ret |-> success,
        missing |-> SelectSeq(REQUIRED_FILES_MLX, IsMissing),
        lines |-> lines,
        weights |-> IF mlx_files # {}
                    THEN [mark |-> "found", n |-> Cardinality(mlx_files),
                          total |-> Rat(SumSizes(output_path, mlx_files), MiBPerGB)]
                    ELSE [mark |-> "MISSING", n |-> 0, total |-> Rat(0, MiBPerGB)]]

verify_conversion(output_path) ==
    LET mlx_files == glob(output_path, PAT_SAFETENSORS)
        lines == [i \in DOMAIN REQUIRED_FILES_MLX |->
                      verify_conversion_line(output_path, REQUIRED_FILES_MLX[i])]
        IsMissing(file) == verify_conversion_line(output_path, file).mark = "MISSING"
        success == (\A i \in DOMAIN lines : lines[i].mark = "found") /\ mlx_files # {}
    IN [raised |-> StatFails(output_path, mlx_files),
        ret |-> success,
        missing |-> SelectSeq(REQUIRED_FILES_MLX, IsMissing),
        lines |-> lines,
        weights |-> IF mlx_files # {}
                    THEN [mark |-> "found", n |-> Cardinality(mlx_files),
                          total |-> Rat(SumSizes(output_path, mlx_files), MiBPerGB)]
                    ELSE [mark |-> "MISSING", n |-> 0, total |-> Rat(0, MiBPerGB)]]

(***************************************************************************)
(* SpecFn: the verifiers and estimators applied to every directory within  *)
(* the bounds, to a path that does not exist and to a regular file.        *)
(***************************************************************************)
Idle ==
    /\ tool = "none" /\ pc = "idle" /\ alias = "" /\ quantize = "none"
    /\ cfg = "dict" /\ modelPath = NoDir /\ outPath = NoDir /\ outPath0 = NoDir
    /\ trace = <<>> /\ exitCode = 0 /\ stdout = <<>> /\ verdict = "not_run"
    /\ est = Rat(0, 1) /\ raisedIn = "none"

InitFn ==
    /\ dir \in Dirs \cup {NoDir, NotADir}
    /\ result = [op |-> "none"]
    /\ Idle

RunVerifyModel ==
    /\ result' = [op |-> "verify_model", val |-> verify_model(dir)]
    /\ UNCHANGED <<dir, runVars>>

RunVerifyConversion ==
    /\ result' = [op |-> "verify_conversion", val |-> verify_conversion(dir)]
    /\ UNCHANGED <<dir, runVars>>

RunEstimateSize ==
    /\ \E q \in QUANTIZATION_INFO :
          result' = [op |-> "estimate_size", q |-> q, val |-> estimate_size(dir, q)]
    /\ UNCHANGED <<dir, runVars>>

RunGetDirSize ==
    /\ result' = [op |-> "get_dir_size", val |-> get_dir_size(dir)]
    /\ UNCHANGED <<dir, runVars>>

NextFn ==
    \/ RunVerifyModel
    \/ RunVerifyConversion
    \/ RunEstimateSize
    \/ RunGetDirSize

SpecFn == InitFn /\ [][NextFn]_vars

(***************************************************************************)
(* Spec: one run of either script, from argument parsing to process exit.  *)
(***************************************************************************)
\* directories the external calls leave behind, and model directories given
\* to the convert tool
FilesOf(S) == Dir([p \in S |-> IF 1 \in SizesOf(p) THEN 1 ELSE 10])
SampleDirs ==
    { EmptyDir,
      FilesOf({<<CONFIG_JSON>>, <<TOKENIZER_JSON>>, <<MODEL_SAFETENSORS>>}),
      FilesOf({<<CONFIG_JSON>>, <<TOKENIZER_JSON>>, <<MODEL_INDEX_JSON>>}
              \cup {<<Shard(i)>> : i \in ShardIds}),
      FilesOf({<<CONFIG_JSON>>, <<TOKENIZER_JSON>>, <<WEIGHTS_SAFETENSORS>>}),
      FilesOf({<<CONFIG_JSON>>, <<MODEL_SAFETENSORS>>}),
      FilesOf({<<TOKENIZER_JSON>>, <<MODEL_SAFETENSORS>>}),
      FilesOf({<<CONFIG_JSON>>, <<TOKENIZER_JSON>>, <<SUBDIR, MODEL_SAFETENSORS>>}) }

\* what the user may type for the positional `model` and for --quantize
AliasArgs == DOMAIN MODELS \cup {"not-a-model"}
QuantizeArgs == QUANTIZATION_INFO \cup {"q2"}

Msg(kind, listed) == [kind |-> kind, listed |-> listed]
Printed(kind) == \E i \in DOMAIN stdout : stdout[i].kind = kind
Called(call) == \E i \in DOMAIN trace : trace[i] = call

Init ==
    /\ dir = NoDir
    /\ result = [op |-> "none"]
    /\ tool \in {"download", "convert"}
    /\ pc = "parse_args"
    /\ alias \in (IF tool = "download" THEN AliasArgs ELSE {""})
    /\ quantize \in (IF tool = "convert" THEN QuantizeArgs ELSE {"none"})
    /\ cfg \in (IF tool = "convert" THEN ConfigStates ELSE {"dict"})
    /\ modelPath \in (IF tool = "convert" THEN {NoDir, NotADir} \cup SampleDirs ELSE {NoDir})
    /\ outPath \in {NoDir, NotADir, EmptyDir}
    /\ outPath0 = outPath
    /\ trace = <<>>
    /\ exitCode = 0
    /\ stdout = <<>>
    /\ verdict = "not_run"
    /\ est = Rat(0, 1)
    /\ raisedIn = "none"

\* sys.exit(code), an uncaught exception (code 1) or the end of main (code 0)
Exit(code) == pc' = "done" /\ exitCode' = code

VerdictOf(report) == IF report.ret THEN "pass" ELSE "fail"

(***************************************************************************)
(* download_model.py: main() and download_model()                          *)
(***************************************************************************)
\* the positional `model` declared without choices
download_choices_any == AliasArgs

\* argparse's choices for the positional `model`
download_choices == DOMAIN MODELS

\* parser.parse_args(): argparse rejects a value outside choices with a usage
\* error naming the choices, and exits with status 2
D_parse_args ==
    /\ tool = "download" /\ pc = "parse_args"
    /\ trace' = Append(trace, "parse_args")
    /\ IF alias \in download_choices
       THEN /\ pc' = "mkdir_output_root"
            /\ UNCHANGED <<exitCode, stdout>>
       ELSE /\ Exit(2)
            /\ stdout' = Append(stdout, Msg("argparse: invalid choice", download_choices))
    /\ UNCHANGED <<fnVars, tool, alias, quantize, cfg, modelPath, outPath, verdict, est,
                   raisedIn, outPath0>>

\* args.output.mkdir(parents=True, exist_ok=True), outside any try
D_mkdir_output_root ==
    /\ tool = "download" /\ pc = "mkdir_output_root"
    /\ trace' = Append(trace, "mkdir_output_root")
    /\ IF outPath = NotADir
       THEN /\ raisedIn' = "mkdir_output_root"
            /\ Exit(1)
            /\ stdout' = Append(stdout, Msg("traceback: FileExistsError", {}))
            /\ UNCHANGED outPath
       ELSE /\ outPath' = IF outPath = NoDir THEN EmptyDir ELSE outPath
            /\ pc' = "download_model"
            /\ stdout' = Append(stdout, Msg("banner", {}))
            /\ UNCHANGED <<exitCode, raisedIn>>
    /\ UNCHANGED <<fnVars, tool, alias, quantize, cfg, modelPath, verdict, est, outPath0>>

\* download_model(), up to the external call: the alias lookup
D_download_model ==
    /\ tool = "download" /\ pc = "download_model"
    /\ trace' = Append(trace, "download_model")
    /\ IF alias \notin DOMAIN MODELS
       THEN /\ raisedIn' = "download_model"
            /\ Exit(1)
            /\ stdout' = Append(stdout, Msg("traceback: ValueError: Unknown model", DOMAIN MODELS))
       ELSE /\ pc' = "snapshot_download"
            /\ stdout' = Append(stdout, Msg("Downloading " \o MODELS[alias], {}))
            /\ UNCHANGED <<exitCode, raisedIn>>
    /\ UNCHANGED <<fnVars, tool, alias, quantize, cfg, modelPath, outPath, verdict, est,
                   outPath0>>

\* snapshot_download(...): returns the local path, or raises; an exception is
\* caught, reported (with a hint when the repository is gated) and ends the run
D_snapshot_download ==
    /\ tool = "download" /\ pc = "snapshot_download"
    /\ trace' = Append(trace, "snapshot_download")
    /\ \E outcome \in {"returns", "raises", "raises gated"} :
          IF outcome = "returns"
          THEN /\ modelPath' \in SampleDirs
               /\ pc' = "get_dir_size"
               /\ UNCHANGED <<exitCode, stdout, raisedIn>>
          ELSE /\ modelPath' \in {NoDir, EmptyDir}
               /\ raisedIn' = "snapshot_download"
               /\ stdout' = IF outcome = "raises gated"
                            THEN stdout \o <<Msg("Error downloading model", {}),
                                             Msg("requires authentication", {})>>
                            ELSE Append(stdout, Msg("Error downloading model", {}))
               /\ Exit(1)
    /\ UNCHANGED <<fnVars, tool, alias, quantize, cfg, outPath, verdict, est, outPath0>>

\* the two prints after the download, still inside the try
D_get_dir_size ==
    /\ tool = "download" /\ pc = "get_dir_size"
    /\ trace' = Append(trace, "get_dir_size")
    /\ LET size == get_dir_size(modelPath)
       IN IF size.raised
          THEN /\ raisedIn' = "get_dir_size"
               /\ stdout' = stdout \o <<Msg("Model downloaded", {}),
                                        Msg("Error downloading model", {})>>
               /\ Exit(1)
               /\ UNCHANGED est
          ELSE /\ est' = size.val
               /\ stdout' = stdout \o <<Msg("Model downloaded", {}), Msg("Model size", {})>>
               /\ pc' = "verify_model"
               /\ UNCHANGED <<exitCode, raisedIn>>
    /\ UNCHANGED <<fnVars, tool, alias, quantize, cfg, modelPath, outPath, verdict, outPath0>>

\* D_verify_model run a second time when the first verdict is a failure
D_verify_model_retry ==
    /\ tool = "download" /\ pc = "verify_model"
    /\ trace' = Append(trace, "verify_model")
    /\ LET report == verify_model(modelPath)
       IN /\ verdict' = VerdictOf(report)
          /\ stdout' = Append(stdout,
                 IF report.ret THEN Msg("Model verification complete", {})
                 ELSE Msg("Warning: Missing files", {report.missing[i] : i \in DOMAIN report.missing}))
          /\ pc' = IF report.ret \/ Called("verify_model") THEN "report" ELSE "verify_model"
          /\ UNCHANGED <<exitCode, raisedIn>>
    /\ UNCHANGED <<fnVars, tool, alias, quantize, cfg, modelPath, outPath, est, outPath0>>

\* `if args.verify or True: verify_model(model_path)`; the result is dropped
D_verify_model ==
    /\ tool = "download" /\ pc = "verify_model"
    /\ trace' = Append(trace, "verify_model")
    /\ LET report == verify_model(modelPath)
       IN IF report.raised
          THEN /\ raisedIn' = "verify_model"
               /\ stdout' = Append(stdout, Msg("traceback: FileNotFoundError", {}))
               /\ Exit(1)
               /\ UNCHANGED verdict
          ELSE /\ verdict' = VerdictOf(report)
               /\ stdout' = Append(stdout,
                      IF report.ret THEN Msg("Model verification complete", {})
                      ELSE Msg("Warning: Missing files", {report.missing[i] : i \in DOMAIN report.missing}))
               /\ pc' = "report"
               /\ UNCHANGED <<exitCode, raisedIn>>
    /\ UNCHANGED <<fnVars, tool, alias, quantize, cfg, modelPath, outPath, est, outPath0>>

\* D_report with the exit status taken from the verifier's verdict
D_report_strict ==
    /\ tool = "download" /\ pc = "report"
    /\ trace' = Append(trace, "report")
    /\ stdout' = Append(stdout, Msg("Download complete", {}))
    /\ Exit(IF verdict = "pass" THEN 0 ELSE 1)
    /\ UNCHANGED <<fnVars, tool, alias, quantize, cfg, modelPath, outPath, verdict, est,
                   raisedIn, outPath0>>

\* the closing prints; main returns and the process exits with status 0
D_report ==
    /\ tool = "download" /\ pc = "report"
    /\ trace' = Append(trace, "report")
    /\ stdout' = Append(stdout, Msg("Download complete", {}))
    /\ Exit(0)
    /\ UNCHANGED <<fnVars, tool, alias, quantize, cfg, modelPath, outPath, verdict, est,
                   raisedIn, outPath0>>

(***************************************************************************)
(* convert_to_mlx.py: main() and convert_model()                           *)
(***************************************************************************)
\* parser.parse_args(): --quantize outside its choices is a usage error, status 2
C_parse_args ==
    /\ tool = "convert" /\ pc = "parse_args"
    /\ trace' = Append(trace, "parse_args")
    /\ IF quantize \in QUANTIZATION_INFO
       THEN /\ pc' = "validate_input"
            /\ UNCHANGED <<exitCode, stdout>>
       ELSE /\ Exit(2)
            /\ stdout' = Append(stdout, Msg("argparse: invalid choice", {"q4", "q8"}))
    /\ UNCHANGED <<fnVars, tool, alias, quantize, cfg, modelPath, outPath, verdict, est,
                   raisedIn, outPath0>>

\* "# Validate input", then the output path is derived and the banner printed
C_validate_input ==
    /\ tool = "convert" /\ pc = "validate_input"
    /\ trace' = Append(trace, "validate_input")
    /\ IF modelPath = NoDir
       THEN /\ stdout' = Append(stdout, Msg("Error: Model path does not exist", {}))
            /\ Exit(1)
       ELSE IF ~IsDir(modelPath)
       THEN /\ stdout' = Append(stdout, Msg("Error: Model path must be a directory", {}))
            /\ Exit(1)
       ELSE /\ stdout' = Append(stdout, Msg("banner", {}))
            /\ pc' = "get_model_info"
            /\ UNCHANGED exitCode
    /\ UNCHANGED <<fnVars, tool, alias, quantize, cfg, modelPath, outPath, verdict, est,
                   raisedIn, outPath0>>

\* convert_model(), "# Get model info": outside the try, so what json.load or
\* info.get raises leaves the process through an uncaught exception
C_get_model_info ==
    /\ tool = "convert" /\ pc = "get_model_info"
    /\ trace' = Append(trace, "get_model_info")
    /\ LET r == get_model_info(modelPath, cfg)
       IN IF r.raised
          THEN /\ raisedIn' = "get_model_info"
               /\ stdout' = Append(stdout, Msg("traceback: JSONDecodeError", {}))
               /\ Exit(1)
          ELSE IF r.info = "list"
          THEN /\ raisedIn' = "get_model_info"
               /\ stdout' = Append(stdout, Msg("traceback: AttributeError", {}))
               /\ Exit(1)
          ELSE /\ stdout' = stdout
                      \o (IF r.warned THEN <<Msg("Warning: config.json not found", {})>> ELSE <<>>)
                      \o (IF r.info = "dict" THEN <<Msg("Model architecture", {})>> ELSE <<>>)
               /\ pc' = "estimate_size"
               /\ UNCHANGED <<exitCode, raisedIn>>
    /\ UNCHANGED <<fnVars, tool, alias, quantize, cfg, modelPath, outPath, verdict, est,
                   outPath0>>

\* "# Estimate output size", before the conversion and outside the try
C_estimate_size ==
    /\ tool = "convert" /\ pc = "estimate_size"
    /\ trace' = Append(trace, "estimate_size")
    /\ LET e == estimate_size(modelPath, quantize)
       IN IF e.raised
          THEN /\ raisedIn' = "estimate_size"
               /\ stdout' = Append(stdout, Msg("traceback: FileNotFoundError", {}))
               /\ Exit(1)
               /\ UNCHANGED est
          ELSE /\ est' = e.val
               /\ stdout' = Append(stdout, Msg("Estimated output size", {}))
               /\ pc' = "mkdir_output"
               /\ UNCHANGED <<exitCode, raisedIn>>
    /\ UNCHANGED <<fnVars, tool, alias, quantize, cfg, modelPath, outPath, verdict, outPath0>>

\* output_path.mkdir(parents=True, exist_ok=True), first statement of the try
C_mkdir_output ==
    /\ tool = "convert" /\ pc = "mkdir_output"
    /\ trace' = Append(trace, "mkdir_output")
    /\ IF outPath = NotADir
       THEN /\ raisedIn' = "mkdir_output"
            /\ stdout' = Append(stdout, Msg("Conversion failed", {}))
            /\ Exit(1)
            /\ UNCHANGED outPath
       ELSE /\ outPath' = IF outPath = NoDir THEN EmptyDir ELSE outPath
            /\ stdout' = Append(stdout, Msg("Converting...", {}))
            /\ pc' = "convert"
            /\ UNCHANGED <<exitCode, raisedIn>>
    /\ UNCHANGED <<fnVars, tool, alias, quantize, cfg, modelPath, verdict, est, outPath0>>

\* C_convert with the exception swallowed: the run goes on to the verifier
C_convert_swallow ==
    /\ tool = "convert" /\ pc = "convert"
    /\ trace' = Append(trace, "convert")
    /\ \E outcome \in {"returns", "raises"} :
          IF outcome = "returns"
          THEN /\ outPath' \in SampleDirs
               /\ stdout' = Append(stdout, Msg("Conversion complete!", {}))
               /\ pc' = "verify_conversion"
               /\ UNCHANGED <<exitCode, raisedIn>>
          ELSE /\ outPath' \in {outPath} \cup SampleDirs
               /\ raisedIn' = "convert"
               /\ stdout' = Append(stdout, Msg("Conversion failed", {}))
               /\ pc' = "verify_conversion"
               /\ UNCHANGED exitCode
    /\ UNCHANGED <<fnVars, tool, alias, quantize, cfg, modelPath, verdict, est, outPath0>>

\* convert(...): fills the output directory and returns, or raises; an
\* exception is caught, reported and ends the run
C_convert ==
    /\ tool = "convert" /\ pc = "convert"
    /\ trace' = Append(trace, "convert")
    /\ \E outcome \in {"returns", "raises"} :
          IF outcome = "returns"
          THEN /\ outPath' \in SampleDirs
               /\ stdout' = Append(stdout, Msg("Conversion complete!", {}))
               /\ pc' = "verify_conversion"
               /\ UNCHANGED <<exitCode, raisedIn>>
          ELSE /\ outPath' \in {outPath} \cup SampleDirs
               /\ raisedIn' = "convert"
               /\ stdout' = Append(stdout, Msg("Conversion failed", {}))
               /\ Exit(1)
    /\ UNCHANGED <<fnVars, tool, alias, quantize, cfg, modelPath, verdict, est, outPath0>>

\* "# Verify output", inside the try; the result is dropped
C_verify_conversion ==
    /\ tool = "convert" /\ pc = "verify_conversion"
    /\ trace' = Append(trace, "verify_conversion")
    /\ LET report == verify_conversion(outPath)
       IN IF report.raised
          THEN /\ raisedIn' = "verify_conversion"
               /\ stdout' = Append(stdout, Msg("Conversion failed", {}))
               /\ Exit(1)
               /\ UNCHANGED verdict
          ELSE /\ verdict' = VerdictOf(report)
               /\ stdout' = Append(stdout,
                      IF report.ret THEN Msg("Model verification passed", {})
                      ELSE Msg("Model verification failed",
                               {report.missing[i] : i \in DOMAIN report.missing}))
               /\ pc' = "report"
               /\ UNCHANGED <<exitCode, raisedIn>>
    /\ UNCHANGED <<fnVars, tool, alias, quantize, cfg, modelPath, outPath, est, outPath0>>

\* the closing prints; main returns and the process exits with status 0
C_report ==
    /\ tool = "convert" /\ pc = "report"
    /\ trace' = Append(trace, "report")
    /\ stdout' = Append(stdout, Msg("Conversion complete", {}))
    /\ Exit(0)
    /\ UNCHANGED <<fnVars, tool, alias, quantize, cfg, modelPath, outPath, verdict, est,
                   raisedIn, outPath0>>

Next ==
    \/ D_parse_args
    \/ D_mkdir_output_root
    \/ D_download_model
    \/ D_snapshot_download
    \/ D_get_dir_size
    \/ D_verify_model
    \/ D_report
    \/ C_parse_args
    \/ C_validate_input
    \/ C_get_model_info
    \/ C_estimate_size
    \/ C_mkdir_output
    \/ C_convert
    \/ C_verify_conversion
    \/ C_report

Spec == Init /\ [][Next]_vars

(***************************************************************************)
(* Vocabulary of the properties, stated without the source's helpers.      *)
(***************************************************************************)
Has(d, name) == d.kind = "dir" /\ <<name>> \in DOMAIN d.files
EndsWith(name, suffix) == Len(name) >= 1 /\ name[Len(name)] = suffix
AllFiles(d) == IF d.kind = "dir" THEN DOMAIN d.files ELSE {}
TopFiles(d) == {p \in AllFiles(d) : Len(p) = 1}
\* files directly in d named model<anything>.safetensors
ModelWeights(d) ==
    {p \in TopFiles(d) : Len(p[1]) >= 2 /\ p[1][1] = "model" /\ EndsWith(p[1], ".safetensors")}
\* *.safetensors files directly in d, and at any depth
TopWeights(d) == {p \in TopFiles(d) : EndsWith(p[1], ".safetensors")}
AnyWeights(d) == {p \in AllFiles(d) : EndsWith(p[Len(p)], ".safetensors")}
RECURSIVE SumOver(_, _)
SumOver(f, S) == IF S = {} THEN 0 ELSE LET x == CHOOSE y \in S : TRUE IN f[x] + SumOver(f, S \ {x})
RawSize(d) == SumOver(d.files, AnyWeights(d))
Factor == [none |-> Rat(1, 1), q4 |-> Rat(1, 4), q8 |-> Rat(1, 2)]
Range(seq) == {seq[i] : i \in DOMAIN seq}
IsVerify == result.op \in {"verify_model", "verify_conversion"}

ExternalCalls == {"snapshot_download", "convert"}
VerifyCalls == {"verify_model", "verify_conversion"}
TransformReturned == (\E c \in ExternalCalls : Called(c)) /\ raisedIn \notin ExternalCalls

StageOf(call) ==
    CASE call \in {"parse_args", "mkdir_output_root", "validate_input"} -> "Validate Input"
      [] call \in {"download_model", "get_model_info"} -> "Resolve/Locate"
      [] call \in {"mkdir_output", "snapshot_download", "convert"} -> "Transform"
      [] call \in {"get_dir_size", "estimate_size"} -> "Estimate"
      [] call \in VerifyCalls -> "Verify"
      [] call = "report" -> "Report"
\* the order of the stages as the specification gives it
StatedOrder == <<"Validate Input", "Resolve/Locate", "Transform", "Estimate", "Verify", "Report">>
\* the order of the stages in the convert tool
ConvertOrder == <<"Validate Input", "Resolve/Locate", "Estimate", "Transform", "Verify", "Report">>
Rank(order, stage) == CHOOSE i \in DOMAIN order : order[i] = stage
InOrder(order) ==
    \A i, j \in DOMAIN trace :
        i < j => /\ trace[i] # trace[j]
                 /\ Rank(order, StageOf(trace[i])) <= Rank(order, StageOf(trace[j]))

(***************************************************************************)
(* Properties.                                                             *)
(***************************************************************************)
\* C1: a failure ends the run at once with a non-zero status.  In the convert
\* tool a model_path that is missing or no directory exits with status 1 and
\* neither the output directory is created nor convert called; in both tools,
\* when the external call raises, the run has exited with status 1 and
\* neither the verifier nor the final report ran.
C1_FailureAborts ==
    /\ raisedIn # "none" => pc = "done" /\ exitCode # 0
    /\ (tool = "convert" /\ Called("validate_input") /\ ~IsDir(modelPath))
          => /\ pc = "done" /\ exitCode = 1
             /\ outPath = outPath0
             /\ ~Called("mkdir_output") /\ ~Called("convert")
    /\ raisedIn \in ExternalCalls
          => /\ pc = "done" /\ exitCode = 1
             /\ \A c \in VerifyCalls \cup {"report"} : ~Called(c)
             /\ verdict = "not_run"
             /\ ~Printed("Download complete") /\ ~Printed("Conversion complete")

C1_Witness ==
    /\ tool = "convert" /\ raisedIn = "convert" /\ pc = "done" /\ exitCode = 1
    /\ outPath # outPath0

\* C2: once the external call has returned, the run goes on through the
\* verifier to the final report and exits with status 0, whether the verifier
\* returned true or false.
C2_VerifyNeverFatal ==
    TransformReturned =>
        /\ pc # "done" => ENABLED Next
        /\ pc = "done" =>
              /\ exitCode = 0
              /\ Called("report")
              /\ \E c \in VerifyCalls : Called(c)
              /\ verdict \in {"pass", "fail"}

C2_Witness ==
    /\ tool = "download" /\ pc = "done" /\ Called("snapshot_download")
    /\ verdict = "fail" /\ exitCode = 0

\* C3 as stated: an alias outside the table ends the download tool with
\* status 1 and a message listing the 5 aliases, with no snapshot_download.
C3_Original ==
    (tool = "download" /\ pc = "done" /\ alias \notin DOMAIN MODELS)
        => /\ exitCode = 1
           /\ \E i \in DOMAIN stdout : stdout[i].listed = DOMAIN MODELS
           /\ ~Called("snapshot_download")

\* C3, amended: an alias outside the table ends the download tool in
\* argument parsing with status 2 and an invalid-choice message listing the 5
\* aliases; nothing else runs: no directory is made, no snapshot_download.
C3_UnknownAlias ==
    (tool = "download" /\ pc = "done" /\ alias \notin DOMAIN MODELS)
        => /\ exitCode = 2
           /\ stdout = <<Msg("argparse: invalid choice", DOMAIN MODELS)>>
           /\ Cardinality(DOMAIN MODELS) = 5
           /\ trace = <<"parse_args">>
           /\ outPath = outPath0 /\ modelPath = NoDir

C3_Witness == tool = "download" /\ pc = "done" /\ alias = "not-a-model" /\ exitCode = 2

\* C4: verify_model returns true iff config.json exists, tokenizer.json exists
\* and model.safetensors or at least one file model*.safetensors exists; with
\* model.safetensors absent and k >= 1 such files, the weights line reads
\* "sharded" with count k.
C4_VerifyModel ==
    result.op = "verify_model" =>
        LET r == result.val
            k == Cardinality(ModelWeights(dir))
        IN /\ r.ret <=> /\ Has(dir, CONFIG_JSON)
                        /\ Has(dir, TOKENIZER_JSON)
                        /\ (Has(dir, MODEL_SAFETENSORS) \/ k >= 1)
           /\ (~Has(dir, MODEL_SAFETENSORS) /\ k >= 1)
                 => r.lines[3].mark = "sharded" /\ r.lines[3].n = k

C4_Witness ==
    /\ result.op = "verify_model"
    /\ AllFiles(dir) = {<<CONFIG_JSON>>, <<TOKENIZER_JSON>>} \cup {<<Shard(i)>> : i \in ShardIds}
    /\ result.val.ret
    /\ result.val.lines[3].mark = "sharded" /\ result.val.lines[3].n = 3

\* C5 as stated: on a directory without tokenizer.json the verdict is false and
\* the missing list is tokenizer.json and nothing else, whatever else is there.
C5_Original ==
    (IsVerify /\ IsDir(dir) /\ ~Has(dir, TOKENIZER_JSON))
        => ~result.val.ret /\ result.val.missing = <<TOKENIZER_JSON>>

\* C5, amended: without tokenizer.json the verdict is false and tokenizer.json
\* is listed as missing; every other required entry is listed exactly when it
\* is absent too, so tokenizer.json is the only one listed iff the others are
\* found.
C5_MissingTokenizer ==
    (IsVerify /\ ~Has(dir, TOKENIZER_JSON)) =>
        LET r == result.val
            weightsFound == IF result.op = "verify_model"
                            THEN Has(dir, MODEL_SAFETENSORS) \/ ModelWeights(dir) # {}
                            ELSE TopWeights(dir) # {}
        IN /\ ~r.ret
           /\ TOKENIZER_JSON \in Range(r.missing)
           /\ CONFIG_JSON \in Range(r.missing) <=> ~Has(dir, CONFIG_JSON)
           /\ result.op = "verify_model"
                 => (MODEL_SAFETENSORS \in Range(r.missing) <=> ~weightsFound)
           /\ result.op = "verify_conversion"
                 => (r.weights.mark = "MISSING" <=> ~weightsFound)
           /\ (Has(dir, CONFIG_JSON) /\ weightsFound) => r.missing = <<TOKENIZER_JSON>>

C5_Witness ==
    /\ result.op = "verify_model"
    /\ Has(dir, CONFIG_JSON) /\ Has(dir, MODEL_SAFETENSORS) /\ ~Has(dir, TOKENIZER_JSON)
    /\ ~result.val.ret /\ result.val.missing = <<TOKENIZER_JSON>>

\* C6: verify_conversion returns true iff config.json exists, tokenizer.json
\* exists and at least one *.safetensors file lies directly in the directory;
\* with none there the verdict is false whatever else holds, also when weight
\* files of non-zero size lie in a subdirectory and estimate_size counts them.
C6_VerifyConversion ==
    result.op = "verify_conversion" =>
        LET r == result.val
        IN /\ r.ret <=> /\ Has(dir, CONFIG_JSON)
                        /\ Has(dir, TOKENIZER_JSON)
                        /\ TopWeights(dir) # {}
           /\ TopWeights(dir) = {} => ~r.ret /\ r.weights.mark = "MISSING"
           /\ TopWeights(dir) # {} => r.weights.n = Cardinality(TopWeights(dir))
           /\ (TopWeights(dir) = {} /\ RawSize(dir) > 0)
                 => ~r.ret /\ estimate_size(dir, "none").val.num > 0

C6_Witness ==
    /\ result.op = "verify_conversion"
    /\ AllFiles(dir) = {<<CONFIG_JSON>>, <<TOKENIZER_JSON>>, <<SUBDIR, MODEL_SAFETENSORS>>}
    /\ dir.files[<<SUBDIR, MODEL_SAFETENSORS>>] = 10
    /\ ~result.val.ret
    /\ estimate_size(dir, "none").val.num > 0

\* C7: estimate_size returns rawSize x factor[mode], rawSize being the sum of
\* the sizes of the *.safetensors files at any depth, and factor none = 1.0,
\* q4 = 0.25, q8 = 0.5; with no such file the result is 0 and nothing is raised.
C7_EstimateSize ==
    result.op = "estimate_size" =>
        /\ ~result.val.raised
        /\ RatEq(result.val.val, RatMul(Rat(RawSize(dir), MiBPerGB), Factor[result.q]))
        /\ AnyWeights(dir) = {} => result.val.val.num = 0

\* a single model.safetensors of 10 MB with q4: 2.5 MB
C7_Witness ==
    /\ result.op = "estimate_size" /\ result.q = "q4"
    /\ AllFiles(dir) = {<<MODEL_SAFETENSORS>>} /\ dir.files[<<MODEL_SAFETENSORS>>] = 10
    /\ RatEq(RatMul(result.val.val, Rat(MiBPerGB, 1)), Rat(5, 2))

\* C8: on a directory that does not exist both verifiers return, raising
\* nothing, with verdict false and every requirement, the weights included,
\* reported missing; a verifier run leaves the directory as it was, and a
\* second run of the same verifier gives the same report.
C8_MissingDirectory ==
    /\ [](( IsVerify /\ dir = NoDir) =>
            /\ ~result.val.raised
            /\ ~result.val.ret
            /\ \A i \in DOMAIN result.val.lines : result.val.lines[i].mark = "MISSING"
            /\ result.op = "verify_model" => result.val.missing = REQUIRED_FILES_MODEL
            /\ result.op = "verify_conversion"
                  => /\ result.val.missing = REQUIRED_FILES_MLX
                     /\ result.val.weights.mark = "MISSING")
    /\ [][result'.op \in {"verify_model", "verify_conversion"}
            => /\ dir' = dir
               /\ ~result'.val.raised
               /\ result.op = result'.op => result' = result]_vars

C8_Witness ==
    /\ dir = NoDir /\ result.op = "verify_conversion"
    /\ ~result.val.ret /\ ~result.val.raised

\* C9: in the convert tool an absent config.json gives an empty model info and
\* a warning, and the run goes on to the estimate and, unless the output
\* directory cannot be made, to the convert call; a config.json that is there
\* but is not JSON raises out of convert_model: the run ends with a non-zero
\* status, the output directory untouched, no estimate made, convert not called.
C9_ConfigJson ==
    (tool = "convert" /\ Called("get_model_info")) =>
        /\ ~Has(modelPath, CONFIG_JSON)
              => /\ Printed("Warning: config.json not found")
                 /\ ~Printed("Model architecture")
                 /\ raisedIn # "get_model_info"
                 /\ pc = "estimate_size" \/ Called("estimate_size")
                 /\ pc = "done" => Called("convert") \/ raisedIn = "mkdir_output"
        /\ (Has(modelPath, CONFIG_JSON) /\ cfg = "malformed")
              => /\ pc = "done" /\ exitCode = 1
                 /\ raisedIn = "get_model_info"
                 /\ outPath = outPath0
                 /\ ~Called("estimate_size") /\ ~Called("mkdir_output") /\ ~Called("convert")

C9_Witness ==
    /\ tool = "convert" /\ pc = "done" /\ cfg = "malformed"
    /\ Has(modelPath, CONFIG_JSON) /\ raisedIn = "get_model_info" /\ exitCode = 1

\* C10 as stated: in both tools the stages run in the order Validate Input,
\* Resolve/Locate, Transform, Estimate, Verify, Report, no call twice.
C10_Original == InOrder(StatedOrder)

\* C10, amended: no call is made twice; the download tool runs its stages in
\* the order Validate Input, Resolve/Locate, Transform, Estimate, Verify,
\* Report; the convert tool computes the estimate before the transform:
\* Validate Input, Resolve/Locate, Estimate, Transform, Verify, Report.
C10_StageOrder ==
    /\ tool = "download" => InOrder(StatedOrder)
    /\ tool = "convert" => InOrder(ConvertOrder)
    /\ \A c \in VerifyCalls : Called(c) => \E e \in {"get_dir_size", "estimate_size"} : Called(e)
    /\ Called("get_dir_size") => Called("snapshot_download")
    /\ Called("convert") => Called("estimate_size")

C10_Witness ==
    /\ tool = "convert" /\ pc = "done" /\ exitCode = 0
    /\ Called("estimate_size") /\ Called("convert") /\ Called("verify_conversion")

====
